---- MODULE Spec2Model ----
(***************************************************************************)
(* Weather and crop-disease risk service (main.py): the four risk scorers, *)
(* the forecast normaliser, the terrain updater, the two background        *)
(* refresh tasks started at startup, and the authenticated query endpoint. *)
(***************************************************************************)
EXTENDS Integers, Sequences, FiniteSets, TLC

(***************************************************************************)
(* Bounds of the model.                                                    *)
(***************************************************************************)
\* longest leading run of identical samples in a series given to the scorers
MaxRun == 49
\* longest block of separating samples after the leading run
MaxGap == 1
\* longest trailing run after the separating block
MaxTail == 2
\* longest run on either side of the separator in the series of the
\* replacement experiment
MaxJoin == 12
\* number of stored terrain documents
NumTerrains == 2
\* a third of the number of entries of a non-empty provider answer
MaxItems == 3
\* latest value of the wall clock
MaxTime == 1

(***************************************************************************)
(* Python helpers.                                                         *)
(***************************************************************************)
\* min(a, b) and max(a, b) of Python
min(a, b) == IF a <= b THEN a ELSE b

max(a, b) == IF a >= b THEN a ELSE b

\* the slice s[:n]
Prefix(s, n) == SubSeq(s, 1, min(n, Len(s)))

\* n copies of x, the shape of a stable weather period
Rep(x, n) == [i \in 1..n |-> x]

(***************************************************************************)
(* SCORING LOGIC (main.py 85-162).  A sample h is a record                 *)
(* [time, temp, humidity, precipitation, is_wet].                          *)
(***************************************************************************)
\* clamp without its ceiling
clamp_no_ceiling(score) == max(0, score)

clamp(score) == max(0, min(100, score))

\* the loop of score_rouille_brune with the counter reset once the bonus is
\* awarded, so that the bonus is given once per run of 6
RECURSIVE brune_loop_reset(_, _, _, _)
brune_loop_reset(hs, i, score, consecutive) ==
    IF i > Len(hs) THEN score
    ELSE LET h == hs[i]
             q == 15 <= h.temp /\ h.temp <= 25 /\ h.humidity >= 85
             c == IF q THEN consecutive + 1 ELSE 0
             s1 == IF q THEN score + 5 + (IF h.is_wet THEN 3 ELSE 0) ELSE score
             s2 == IF c >= 6 THEN s1 + 20 ELSE s1
         IN  brune_loop_reset(hs, i + 1, s2, IF c >= 6 THEN 0 ELSE c)

\* the loop of score_rouille_brune with the bonus awarded only on the hour
\* the run reaches 6
RECURSIVE brune_loop_once(_, _, _, _)
brune_loop_once(hs, i, score, consecutive) ==
    IF i > Len(hs) THEN score
    ELSE LET h == hs[i]
             q == 15 <= h.temp /\ h.temp <= 25 /\ h.humidity >= 85
             c == IF q THEN consecutive + 1 ELSE 0
             s1 == IF q THEN score + 5 + (IF h.is_wet THEN 3 ELSE 0) ELSE score
             s2 == IF c = 6 THEN s1 + 20 ELSE s1
         IN  brune_loop_once(hs, i + 1, s2, c)

\* the loop of hours[:24] in score_rouille_brune, from sample i on, with the
\* values of score and consecutive before it
RECURSIVE brune_loop(_, _, _, _)
brune_loop(hs, i, score, consecutive) ==
    IF i > Len(hs) THEN score
    ELSE LET h == hs[i]
             q == 15 <= h.temp /\ h.temp <= 25 /\ h.humidity >= 85
             c == IF q THEN consecutive + 1 ELSE 0
             s1 == IF q THEN score + 5 + (IF h.is_wet THEN 3 ELSE 0) ELSE score
             s2 == IF c >= 6 THEN s1 + 20 ELSE s1
         IN  brune_loop(hs, i + 1, s2, c)

raw_rouille_brune(hours) == brune_loop(Prefix(hours, 24), 1, 0, 0)

score_rouille_brune(hours) == clamp(raw_rouille_brune(hours))

RECURSIVE noire_loop(_, _, _, _)
noire_loop(hs, i, score, consecutive) ==
    IF i > Len(hs) THEN score
    ELSE LET h == hs[i]
             q == 18 <= h.temp /\ h.temp <= 30 /\ h.humidity >= 90
             c == IF q THEN consecutive + 1 ELSE 0
             s1 == IF q THEN score + 6 ELSE score
             s2 == IF c >= 8 THEN s1 + 25 ELSE s1
         IN  noire_loop(hs, i + 1, s2, c)

raw_rouille_noire(hours) == noire_loop(Prefix(hours, 24), 1, 0, 0)

score_rouille_noire(hours) == clamp(raw_rouille_noire(hours))

RECURSIVE jaune_loop(_, _, _, _)
jaune_loop(hs, i, score, consecutive) ==
    IF i > Len(hs) THEN score
    ELSE LET h == hs[i]
             q == 7 <= h.temp /\ h.temp <= 18 /\ h.humidity >= 87
             c == IF q THEN consecutive + 1 ELSE 0
             s1 == IF q THEN score + 5 + (IF h.is_wet THEN 4 ELSE 0) ELSE score
             s2 == IF c >= 5 THEN s1 + 20 ELSE s1
         IN  jaune_loop(hs, i + 1, s2, c)

raw_rouille_jaune(hours) == jaune_loop(Prefix(hours, 24), 1, 0, 0)

score_rouille_jaune(hours) == clamp(raw_rouille_jaune(hours))

\* the loop of score_septoriose with the test of wetness dropped
RECURSIVE septoriose_loop_any(_, _, _, _)
septoriose_loop_any(hs, i, score, wet_hours) ==
    IF i > Len(hs) THEN score
    ELSE LET h == hs[i]
             q == 15 <= h.temp /\ h.temp <= 20
             c == IF q THEN wet_hours + 1 ELSE 0
             s1 == IF q THEN score + 4 ELSE score
             s2 == IF c >= 20 THEN s1 + 30 ELSE s1
         IN  septoriose_loop_any(hs, i + 1, s2, c)

RECURSIVE septoriose_loop(_, _, _, _)
septoriose_loop(hs, i, score, wet_hours) ==
    IF i > Len(hs) THEN score
    ELSE LET h == hs[i]
             q == 15 <= h.temp /\ h.temp <= 20 /\ h.is_wet
             c == IF q THEN wet_hours + 1 ELSE 0
             s1 == IF q THEN score + 4 ELSE score
             s2 == IF c >= 20 THEN s1 + 30 ELSE s1
         IN  septoriose_loop(hs, i + 1, s2, c)

raw_septoriose(hours) == septoriose_loop(Prefix(hours, 48), 1, 0, 0)

score_septoriose(hours) == clamp(raw_septoriose(hours))

predict_future_risk(hourly) ==
    [rouille_brune |-> score_rouille_brune(hourly),
     rouille_noire |-> score_rouille_noire(hourly),
     rouille_jaune |-> score_rouille_jaune(hourly),
     septoriose    |-> score_septoriose(hourly)]

(***************************************************************************)
(* Inputs of the scorers: samples around the thresholds of the four        *)
(* qualify conditions, and series made of runs of them.                    *)
(***************************************************************************)
Sample(t, hu, p, w) ==
    [time |-> 0, temp |-> t, humidity |-> hu, precipitation |-> p, is_wet |-> w]

Samples ==
    { Sample(5, 50, 0, FALSE),     \* qualifies for no scorer
      Sample(20, 85, 0, FALSE),    \* rouille_brune only, dry
      Sample(18, 90, 0, TRUE),     \* all four scorers
      Sample(20, 60, 2, TRUE),     \* septoriose only
      Sample(7, 87, 1, TRUE) }     \* rouille_jaune only, wet

\* more samples, most of them just outside one of the conditions
NearSamples ==
    { Sample(30, 95, 0, FALSE),    \* rouille_noire only
      Sample(15, 84, 0, FALSE),    \* humidity below rouille_brune's 85
      Sample(26, 90, 0, TRUE),     \* temperature above rouille_brune's 25
      Sample(19, 87, 0, TRUE),     \* temperature above rouille_jaune's 18
      Sample(31, 99, 3, TRUE) }    \* temperature above rouille_noire's 30

\* a run of a, a gap of b, a short run of a again
SeriesSet ==
    { Rep(a, n1) \o Rep(b, n2) \o Rep(a, n3) :
        a \in Samples \cup NearSamples, b \in Samples \cup NearSamples,
        n1 \in 0..MaxRun, n2 \in 0..MaxGap, n3 \in 0..MaxTail }

\* two runs of a, joined directly or separated by one sample b
JoinSet ==
    { Rep(a, n1) \o Rep(b, n2) \o Rep(a, n3) :
        a \in Samples, b \in Samples, n1 \in 0..MaxJoin, n2 \in {0, 1},
        n3 \in 0..MaxJoin }

\* the keys of the dict of risks
Diseases == {"rouille_brune", "rouille_noire", "rouille_jaune", "septoriose"}

\* the if condition of each scorer (main.py 93, 111, 127, 145)
Qualifies(d, h) ==
    CASE d = "rouille_brune" -> 15 <= h.temp /\ h.temp <= 25 /\ h.humidity >= 85
      [] d = "rouille_noire" -> 18 <= h.temp /\ h.temp <= 30 /\ h.humidity >= 90
      [] d = "rouille_jaune" -> 7 <= h.temp /\ h.temp <= 18 /\ h.humidity >= 87
      [] d = "septoriose"    -> 15 <= h.temp /\ h.temp <= 20 /\ h.is_wet

\* the length of the slice each scorer loops over
Window(d) == IF d = "septoriose" THEN 48 ELSE 24

NoReplaced == [pos |-> 0]

NoRisks == [rouille_brune |-> 0, rouille_noire |-> 0, rouille_jaune |-> 0,
            septoriose |-> 0]

(***************************************************************************)
(* Documents of the collection terrainmongos (models.py Terrain) and the   *)
(* answers of the weather provider.                                        *)
(***************************************************************************)
\* a field of a document or of a token: missing, null, or a number
Absent == [kind |-> "absent"]

Null == [kind |-> "null"]

Num(n) == [kind |-> "num", val |-> n]

\* a test for None in place of truthiness
falsy_none_only(v) == v.kind # "num"

\* Python truthiness of d.get(field): None and 0 are falsy
falsy(v) == IF v.kind = "num" THEN v.val = 0 ELSE TRUE

Terrains == 1..NumTerrains

\* the external identifier of the document with internal id p
TerrainIdOf(p) == 10 * p

\* a document that was never refreshed has no indicators
NoIndicators == [absent |-> TRUE]

Coords == [latitude |-> Num(36), longitude |-> Num(10)]

\* coordinates as they occur in stored documents: valid, or one of them
\* missing, null or 0
CoordChoices ==
    { Coords,
      [latitude |-> Absent, longitude |-> Num(10)],
      [latitude |-> Num(0), longitude |-> Num(10)],
      [latitude |-> Num(36), longitude |-> Null] }

\* clientId of a stored document: an integer (models.py), or the key is missing
ClientChoices == {Absent, Num(1), Num(2)}

Doc(p, c, owner) ==
    [_id |-> [oid |-> p], terrainId |-> TerrainIdOf(p), clientId |-> owner,
     latitude |-> c.latitude, longitude |-> c.longitude,
     indicators |-> NoIndicators]

\* an entry of the provider's list: dt_txt, main.temp, main.humidity and the
\* optional rain.3h (<<>> when the entry has no rain key)
Item(t, hu, r) == [dt_txt |-> 0, temp |-> t, humidity |-> hu, rain |-> r]

DryItem == Item(20, 85, <<>>)

HumidItem == Item(18, 90, <<>>)

RainyItem == Item(16, 60, <<2>>)

\* a dry period, a humid period and a rainy period of n entries each,
\* stamped in order
ProviderList(n) ==
    [i \in 1..(3 * n) |->
        [(IF i <= n THEN DryItem ELSE IF i <= 2 * n THEN HumidItem ELSE RainyItem)
            EXCEPT !.dt_txt = i]]

\* the lists the provider answers with: no entry, or the three periods
ProviderLists == {<<>>, ProviderList(MaxItems)}

StatusCodes == {200, 500}

TaskNames == {"once", "periodic"}

\* the natural order, in which a cursor over find({}) yields the documents
NaturalOrder == [i \in 1..NumTerrains |-> i]

VARIABLES
    spc,            \* scoring runs: "input", "scored", "varied"
    hourly,         \* the series given to predict_future_risk
    risks,          \* its result
    replaced,       \* the position and the sample the series was changed at
    prevRisks,      \* the result of the previous call
    terrainmongos,  \* db["terrainmongos"]: internal id -> document
    tasks,          \* the two background tasks created at startup
    now,            \* datetime.utcnow()
    request,        \* the last request to GET /terrainmongos/{terrain_id}
    response        \* its response

scoreVars == <<spc, hourly, risks, replaced, prevRisks>>

serviceVars == <<terrainmongos, tasks, now>>

queryVars == <<request, response>>

vars == <<spc, hourly, risks, replaced, prevRisks, terrainmongos, tasks, now,
          request, response>>

(***************************************************************************)
(* WEATHER (main.py 56-82)                                                 *)
(***************************************************************************)
\* the body of the for loop: one provider entry becomes one hourly sample
hourly_sample(item) ==
    LET precipitation == IF Len(item.rain) = 0 THEN 0 ELSE item.rain[1]
    IN  [time |-> item.dt_txt,
         temp |-> item.temp,
         humidity |-> item.humidity,
         precipitation |-> precipitation,
         is_wet |-> (item.humidity >= 90 \/ precipitation > 0)]

\* the samples of data["list"][:48]
normalize(list) == [i \in 1..Len(Prefix(list, 48)) |-> hourly_sample(list[i])]

(***************************************************************************)
(* MONGO UPDATE and BACKGROUND TASKS (main.py 165-200)                     *)
(* A task is a coroutine: pc is the await it is suspended at, cursor the   *)
(* ids the cursor has still to yield, terrain the document of the current  *)
(* or last call of update_terrain_with_weather, calls and writes the       *)
(* provider requests and store updates that call has issued, status the    *)
(* provider's status code and bundle the indicators it computed.           *)
(***************************************************************************)
NoTask == [pc |-> "find", cursor |-> <<>>, terrain |-> 0, calls |-> 0,
           writes |-> 0, status |-> 0, bundle |-> NoIndicators]

Step(t, pc, cursor, terrain, calls, writes, status, bundle) ==
    tasks' = [tasks EXCEPT ![t] = [pc |-> pc, cursor |-> cursor,
                                   terrain |-> terrain, calls |-> calls,
                                   writes |-> writes, status |-> status,
                                   bundle |-> bundle]]

\* db["terrainmongos"].find({}): the cursor yields every document
Find(t) ==
    /\ tasks[t].pc = "find"
    /\ Step(t, "next", NaturalOrder, 0, 0, 0, 0, NoIndicators)
    /\ UNCHANGED <<terrainmongos, now, scoreVars, queryVars>>

\* update_terrain_with_weather, lines 166-168: a document with a falsy
\* latitude or longitude is skipped
SkipUpdate(t) ==
    /\ tasks[t].pc = "next"
    /\ tasks[t].cursor # <<>>
    /\ LET terrain == terrainmongos[Head(tasks[t].cursor)]
       IN  falsy(terrain.latitude) \/ falsy(terrain.longitude)
    /\ Step(t, "next", Tail(tasks[t].cursor), Head(tasks[t].cursor), 0, 0, 0,
            NoIndicators)
    /\ UNCHANGED <<terrainmongos, now, scoreVars, queryVars>>

\* lines 166-170 and 62-63: the GET request to the provider is sent
StartUpdate(t) ==
    /\ tasks[t].pc = "next"
    /\ tasks[t].cursor # <<>>
    /\ LET terrain == terrainmongos[Head(tasks[t].cursor)]
       IN  ~(falsy(terrain.latitude) \/ falsy(terrain.longitude))
    /\ Step(t, "fetch", Tail(tasks[t].cursor), Head(tasks[t].cursor), 1, 0, 0,
            NoIndicators)
    /\ UNCHANGED <<terrainmongos, now, scoreVars, queryVars>>

\* Fetch without the test of the status code
FetchUnchecked(t) ==
    /\ tasks[t].pc = "fetch"
    /\ \E status \in StatusCodes, list \in ProviderLists,
          utcnow \in now..min(now + 1, MaxTime) :
         /\ now' = utcnow
         /\ LET hourly_weather == normalize(list)
            IN  Step(t, "write", tasks[t].cursor, tasks[t].terrain,
                     tasks[t].calls, 0, status,
                     [weather_forecast |-> hourly_weather,
                      risks |-> predict_future_risk(hourly_weather),
                      lastUpdate |-> utcnow])
    /\ UNCHANGED <<terrainmongos, scoreVars, queryVars>>

\* lines 65-82 and 171-180: the provider answers; on a status other than 200
\* HTTPException is raised and ends the task, else the forecast is normalised,
\* the risks are computed, the clock is read and update_one is sent
Fetch(t) ==
    /\ tasks[t].pc = "fetch"
    /\ \E status \in StatusCodes, list \in ProviderLists,
          utcnow \in now..min(now + 1, MaxTime) :
         /\ now' = utcnow
         /\ IF status # 200
            THEN Step(t, "failed", tasks[t].cursor, tasks[t].terrain,
                      tasks[t].calls, 0, status, NoIndicators)
            ELSE LET hourly_weather == normalize(list)
                 IN  Step(t, "write", tasks[t].cursor, tasks[t].terrain,
                          tasks[t].calls, 0, status,
                          [weather_forecast |-> hourly_weather,
                           risks |-> predict_future_risk(hourly_weather),
                           lastUpdate |-> utcnow])
    /\ UNCHANGED <<terrainmongos, scoreVars, queryVars>>

\* Write with the fields of indicators set one by one, the forecast only when
\* the document has none
WriteMerged(t) ==
    /\ tasks[t].pc = "write"
    /\ terrainmongos' = [terrainmongos EXCEPT ![tasks[t].terrain].indicators =
                   IF @ = NoIndicators THEN tasks[t].bundle
                   ELSE [@ EXCEPT !.risks = tasks[t].bundle.risks,
                                  !.lastUpdate = tasks[t].bundle.lastUpdate]]
    /\ Step(t, "next", tasks[t].cursor, tasks[t].terrain, tasks[t].calls, 1, 0,
            NoIndicators)
    /\ UNCHANGED <<now, scoreVars, queryVars>>

\* lines 173-184: update_one {"$set": {"indicators": ...}} is applied
Write(t) ==
    /\ tasks[t].pc = "write"
    /\ terrainmongos' =
         [terrainmongos EXCEPT ![tasks[t].terrain].indicators = tasks[t].bundle]
    /\ Step(t, "next", tasks[t].cursor, tasks[t].terrain, tasks[t].calls, 1, 0,
            NoIndicators)
    /\ UNCHANGED <<now, scoreVars, queryVars>>

\* the cursor is exhausted: update_all_terrainmongos_once returns, the
\* periodic task sleeps
EndPass(t) ==
    /\ tasks[t].pc = "next"
    /\ tasks[t].cursor = <<>>
    /\ Step(t, IF t = "once" THEN "done" ELSE "sleep", <<>>, 0, 0, 0, 0,
            NoIndicators)
    /\ UNCHANGED <<terrainmongos, now, scoreVars, queryVars>>

\* asyncio.sleep(3600) returns and the while loop starts the next pass
Wake(t) ==
    /\ tasks[t].pc = "sleep"
    /\ Step(t, "find", <<>>, 0, 0, 0, 0, NoIndicators)
    /\ UNCHANGED <<terrainmongos, now, scoreVars, queryVars>>

(***************************************************************************)
(* AUTH and API (main.py 37-53, 207-222)                                   *)
(***************************************************************************)
\* a bearer token: how jwt.decode treats it, and the claims of its payload
Tokens ==
    [kind : {"valid", "bad_signature", "expired"},
     sub : {Absent, Num(0), Num(1), Num(2), [kind |-> "text"]},
     email : BOOLEAN, role : BOOLEAN]

NoUser == [error |-> 401]

\* the user, or the HTTPException(401) for any exception in the try block
verify_token(credentials) ==
    IF credentials.kind # "valid" THEN NoUser
    ELSE IF credentials.sub.kind # "num" THEN NoUser
    ELSE IF ~credentials.email \/ ~credentials.role THEN NoUser
    ELSE [id |-> credentials.sub.val]

\* find_one({"terrainId": terrain_id}): the documents that match
find_one(terrain_id) ==
    { p \in Terrains : terrainmongos[p].terrainId = terrain_id }

\* int(terrain.get("clientId", 0))
client_of(terrain) ==
    IF terrain.clientId.kind = "num" THEN terrain.clientId.val ELSE 0

\* get_terrain with the ownership test skipped for a document without clientId
get_terrain_open_unowned(terrain_id, credentials) ==
    LET user == verify_token(credentials)
        found == find_one(terrain_id)
    IN  IF user = NoUser THEN [status |-> 401]
        ELSE IF found = {} THEN [status |-> 404]
        ELSE LET terrain == terrainmongos[CHOOSE p \in found : TRUE]
             IN  IF terrain.clientId.kind = "num" /\ client_of(terrain) # user.id
                 THEN [status |-> 403]
                 ELSE [status |-> 200,
                       body |-> [terrain EXCEPT !._id = [str |-> terrain._id.oid]]]

get_terrain(terrain_id, credentials) ==
    LET user == verify_token(credentials)
        found == find_one(terrain_id)
    IN  IF user = NoUser THEN [status |-> 401]
        ELSE IF found = {} THEN [status |-> 404]
        ELSE LET terrain == terrainmongos[CHOOSE p \in found : TRUE]
             IN  IF client_of(terrain) # user.id THEN [status |-> 403]
                 ELSE [status |-> 200,
                       body |-> [terrain EXCEPT !._id = [str |-> terrain._id.oid]]]

NoRequest == [terrain_id |-> 0]

NoResponse == [status |-> 0]

GetTerrain ==
    /\ \E terrain_id \in {TerrainIdOf(p) : p \in 1..NumTerrains + 1},
          credentials \in Tokens :
         /\ request' = [terrain_id |-> terrain_id, credentials |-> credentials]
         /\ response' = get_terrain(terrain_id, credentials)
    /\ UNCHANGED <<serviceVars, scoreVars>>

(***************************************************************************)
(* Specifications: Spec is the service after startup, with its two         *)
(* background tasks; SpecQuery is the endpoint answering requests over a   *)
(* store of documents; SpecScore and SpecJoin are calls of                 *)
(* predict_future_risk on forecast series.                                 *)
(***************************************************************************)
IdleScore ==
    /\ spc = "idle"
    /\ hourly = <<>>
    /\ risks = NoRisks
    /\ replaced = NoReplaced
    /\ prevRisks = NoRisks

IdleService ==
    /\ terrainmongos = [p \in Terrains |-> Doc(p, Coords, Num(1))]
    /\ tasks = [t \in TaskNames |-> NoTask]
    /\ now = 0

IdleQuery ==
    /\ request = NoRequest
    /\ response = NoResponse

\* startup(): both tasks are created; the documents were stored by another
\* service
Init ==
    /\ \E c \in [Terrains -> CoordChoices] :
         terrainmongos = [p \in Terrains |-> Doc(p, c[p], Num(1))]
    /\ tasks = [t \in TaskNames |-> NoTask]
    /\ now = 0
    /\ IdleScore
    /\ IdleQuery

Next ==
    \/ \E t \in TaskNames : Find(t)
    \/ \E t \in TaskNames : SkipUpdate(t)
    \/ \E t \in TaskNames : StartUpdate(t)
    \/ \E t \in TaskNames : Fetch(t)
    \/ \E t \in TaskNames : Write(t)
    \/ \E t \in TaskNames : EndPass(t)
    \/ \E t \in TaskNames : Wake(t)

Spec == Init /\ [][Next]_vars

InitQuery ==
    /\ \E o \in [Terrains -> ClientChoices] :
         terrainmongos = [p \in Terrains |-> Doc(p, Coords, o[p])]
    /\ tasks = [t \in TaskNames |-> NoTask]
    /\ now = 0
    /\ IdleScore
    /\ IdleQuery

NextQuery == GetTerrain

SpecQuery == InitQuery /\ [][NextQuery]_vars

InitScore ==
    /\ spc = "input"
    /\ hourly \in SeriesSet
    /\ risks = NoRisks
    /\ replaced = NoReplaced
    /\ prevRisks = NoRisks
    /\ IdleService
    /\ IdleQuery

InitJoin ==
    /\ spc = "input"
    /\ hourly \in JoinSet
    /\ risks = NoRisks
    /\ replaced = NoReplaced
    /\ prevRisks = NoRisks
    /\ IdleService
    /\ IdleQuery

\* predict_future_risk(hourly) is called on the series
Predict ==
    /\ spc = "input"
    /\ risks' = predict_future_risk(hourly)
    /\ spc' = "scored"
    /\ UNCHANGED <<hourly, replaced, prevRisks, serviceVars, queryVars>>

\* a second call, on the series with one sample that does not qualify for a
\* scorer replaced by one that does
PredictVaried ==
    /\ spc = "scored"
    /\ \E i \in 1..Len(hourly), s \in Samples :
         /\ \E d \in Diseases :
              i <= Window(d) /\ ~Qualifies(d, hourly[i]) /\ Qualifies(d, s)
         /\ hourly' = [hourly EXCEPT ![i] = s]
         /\ replaced' = [pos |-> i, sample |-> hourly[i]]
    /\ prevRisks' = risks
    /\ risks' = predict_future_risk(hourly')
    /\ spc' = "varied"
    /\ UNCHANGED <<serviceVars, queryVars>>

NextScore == Predict

SpecScore == InitScore /\ [][NextScore]_vars

NextJoin == Predict \/ PredictVaried

SpecJoin == InitJoin /\ [][NextJoin]_vars

(***************************************************************************)
(* Properties of the scorers.                                              *)
(***************************************************************************)
\* C1: whatever the series, each of the four scores returned by
\* predict_future_risk is an integer between 0 and 100.
C1_ScoresInRange ==
    spc = "scored" =>
        /\ DOMAIN risks = Diseases
        /\ \A d \in Diseases : risks[d] \in 0..100

\* a series longer than both windows whose raw rouille_brune score is over 100
C1_Witness ==
    /\ spc = "scored"
    /\ Len(hourly) > 48
    /\ raw_rouille_brune(hourly) > 100
    /\ risks.rouille_brune = 100

\* the first 24 samples satisfy rouille_brune's condition and are dry
FullDryBruneRun ==
    /\ Len(hourly) >= 24
    /\ \A i \in 1..24 :
         /\ 15 <= hourly[i].temp /\ hourly[i].temp <= 25
         /\ hourly[i].humidity >= 85
         /\ ~hourly[i].is_wet

\* C2: on 24 dry qualifying samples the raw score of score_rouille_brune is
\* 24*5 + 20*19 = 500 (the bonus is added on each sample from the 6th to the
\* 24th) and the result is clamp(500) = 100.
C2_FullRunScore ==
    (spc = "scored" /\ FullDryBruneRun) =>
        /\ raw_rouille_brune(hourly) = 24 * 5 + 20 * 19
        /\ raw_rouille_brune(hourly) = 500
        /\ risks.rouille_brune = clamp(24 * 5 + 20 * 19)
        /\ risks.rouille_brune = 100

\* a series of more than 24 samples with such a run has been scored
C2_Witness == spc = "scored" /\ FullDryBruneRun /\ Len(hourly) > 24

\* no sample among the first 48 satisfies septoriose's condition
NoSeptorioseSample ==
    \A i \in 1..min(48, Len(hourly)) :
        ~(15 <= hourly[i].temp /\ hourly[i].temp <= 20 /\ hourly[i].is_wet)

\* C7: when no sample among the first 48 is wet with a temperature between 15
\* and 20, score_septoriose returns 0.
C7_NoQualifyingSampleScoresZero ==
    (spc = "scored" /\ NoSeptorioseSample) => risks.septoriose = 0

\* 48 dry samples in the temperature range, then a qualifying 49th sample
C7_Witness ==
    /\ spc = "scored"
    /\ NoSeptorioseSample
    /\ Len(hourly) > 48
    /\ 15 <= hourly[1].temp /\ hourly[1].temp <= 20
    /\ 15 <= hourly[49].temp /\ hourly[49].temp <= 20 /\ hourly[49].is_wet

\* in the second call, a sample in the window of d was replaced by one that
\* qualifies for d where the former did not
Lengthened(d) ==
    /\ replaced.pos <= Window(d)
    /\ ~Qualifies(d, replaced.sample)
    /\ Qualifies(d, hourly[replaced.pos])

\* C6: replacing a sample that does not qualify for a scorer by one that
\* does, inside the scorer's window and with all other samples kept, never
\* lowers that scorer's result.
C6_MonotoneInQualifyingSamples ==
    spc = "varied" =>
        \A d \in Diseases : Lengthened(d) => risks[d] >= prevRisks[d]

\* two runs were joined by the replacement and the score rose below the ceiling
C6_Witness ==
    /\ spc = "varied"
    /\ replaced.pos > 1
    /\ replaced.pos < Len(hourly)
    /\ \E d \in Diseases :
         /\ Lengthened(d)
         /\ Qualifies(d, hourly[replaced.pos - 1])
         /\ Qualifies(d, hourly[replaced.pos + 1])
         /\ prevRisks[d] > 0
         /\ risks[d] > prevRisks[d] + 10
         /\ risks[d] < 100

(***************************************************************************)
(* Properties of the refresh tasks.                                        *)
(***************************************************************************)
\* a latitude or longitude that is absent, null or 0
MissingOrZero(v) == v.kind \in {"absent", "null"} \/ v = Num(0)

Unlocated(p) ==
    \/ MissingOrZero(terrainmongos[p].latitude)
    \/ MissingOrZero(terrainmongos[p].longitude)

\* a complete bundle as a single run of update_terrain_with_weather produces
\* it: the normalised forecast of one provider answer, its risks, a time
RunBundle(ind) ==
    /\ DOMAIN ind = {"weather_forecast", "risks", "lastUpdate"}
    /\ \E l \in ProviderLists : ind.weather_forecast = normalize(l)
    /\ ind.risks = predict_future_risk(ind.weather_forecast)
    /\ ind.lastUpdate \in 0..MaxTime

\* C5: a call of update_terrain_with_weather on a document whose latitude or
\* longitude is absent, null or 0 returns without an error, having sent no
\* provider request and no store update, and leaves the store as it was.
C5_UnlocatedTerrainIsSkipped ==
    [][\A t \in TaskNames :
         (/\ tasks[t].pc = "next"
          /\ tasks[t].cursor # <<>>
          /\ Unlocated(Head(tasks[t].cursor))
          /\ tasks'[t] # tasks[t])
         => /\ tasks'[t].pc = "next"
            /\ tasks'[t].terrain = Head(tasks[t].cursor)
            /\ tasks'[t].calls = 0
            /\ tasks'[t].writes = 0
            /\ terrainmongos' = terrainmongos]_vars

\* a task has returned from the call on a document with latitude 0 while the
\* other documents were being refreshed
C5_Witness ==
    \E t \in TaskNames :
        /\ tasks[t].pc = "next"
        /\ tasks[t].terrain # 0
        /\ terrainmongos[tasks[t].terrain].latitude = Num(0)
        /\ tasks[t].calls = 0
        /\ tasks[t].writes = 0
        /\ terrainmongos[tasks[t].terrain].indicators = NoIndicators
        /\ \E p \in Terrains : terrainmongos[p].indicators # NoIndicators

\* C10: when the provider answers with a status other than 200, the call
\* ends with an error before any risk is computed: no bundle exists, no store
\* update is sent then or later by that task, and the store is left as it was.
C10_FailedFetchWritesNothing ==
    [][\A t \in TaskNames :
         /\ (tasks[t].pc = "fetch" /\ tasks'[t].status \notin {0, 200})
            => /\ tasks'[t].pc = "failed"
               /\ tasks'[t].bundle = NoIndicators
               /\ tasks'[t].writes = 0
               /\ terrainmongos' = terrainmongos
         /\ tasks[t].pc = "failed" => (tasks'[t] = tasks[t])]_vars

\* a fetch failed for a document that holds indicators of an earlier refresh
C10_Witness ==
    \E t \in TaskNames :
        /\ tasks[t].pc = "failed"
        /\ tasks[t].status = 500
        /\ terrainmongos[tasks[t].terrain].indicators # NoIndicators

\* C8: in every reachable state the indicators of a document are absent or
\* are one complete bundle of a single run, so the stored risks are
\* predict_future_risk of the stored forecast.
C8_IndicatorsAreOneBundle ==
    \A p \in Terrains :
        LET ind == terrainmongos[p].indicators
        IN  ind # NoIndicators => RunBundle(ind)

\* both tasks have written the same document, the later write with another
\* forecast than the one the other task had fetched
C8_Witness ==
    \E p \in Terrains :
        /\ \A t \in TaskNames :
             tasks[t].pc = "next" /\ tasks[t].terrain = p /\ tasks[t].writes = 1
        /\ terrainmongos[p].indicators # NoIndicators
        /\ terrainmongos[p].indicators.weather_forecast # <<>>
        /\ terrainmongos[p].indicators.lastUpdate > 0

\* C3: a failed fetch for one document does not abort the pass: the pass
\* does not end while the cursor still has documents with valid coordinates
\* to yield.
C3_FailureDoesNotAbortPass ==
    \A t \in TaskNames :
        tasks[t].pc = "failed" =>
            \A i \in 1..Len(tasks[t].cursor) : Unlocated(tasks[t].cursor[i])

\* C9: the periodic task runs until shutdown: it is never ended by an error
\* and never returns, so that it goes on refreshing every terrain.
C9_PeriodicTaskRunsForever == tasks["periodic"].pc \notin {"failed", "done"}

(***************************************************************************)
(* Properties of the query endpoint.                                       *)
(***************************************************************************)
\* the requested document exists and its owner (0 without clientId) is not
\* the id the token names
OwnedByAnother ==
    /\ response.status # 0
    /\ request.credentials.sub.kind = "num"
    /\ \E p \in Terrains :
         /\ terrainmongos[p].terrainId = request.terrain_id
         /\ (IF terrainmongos[p].clientId.kind = "num"
             THEN terrainmongos[p].clientId.val ELSE 0)
              # request.credentials.sub.val

\* the token is signed, not expired and carries sub, email and role
TokenVerifies ==
    /\ request.credentials.kind = "valid"
    /\ request.credentials.email
    /\ request.credentials.role

\* C4 as stated: a request for a document owned by another id is answered
\* 403 whether the token is valid, invalid or expired.
C4_ForbiddenWhateverTheToken == OwnedByAnother => response.status = 403

\* C4 as amended: such a request is answered 403 when the token verifies and
\* 401 when it does not.
C4_ForbiddenForVerifiedToken ==
    OwnedByAnother => response.status = (IF TokenVerifies THEN 403 ELSE 401)

\* a verified caller was refused a document that has no clientId
C4_Witness ==
    /\ OwnedByAnother
    /\ TokenVerifies
    /\ response.status = 403
    /\ \E p \in Terrains :
         /\ terrainmongos[p].terrainId = request.terrain_id
         /\ terrainmongos[p].clientId = Absent
====
